---- MODULE Spec2Model ----
(***************************************************************************)
(* Texture cache of GLideNHQ (TxCache.cpp): the facade TxCache, which owns *)
(* one backend chosen at construction, the memory backend TxMemoryCache    *)
(* (lookup map, LRU list, byte budget) and the file backend TxFileStorage. *)
(* Every operation is one atomic action: the cache is single-threaded and  *)
(* each call runs to completion.                                           *)
(***************************************************************************)
EXTENDS Integers, Sequences, FiniteSets, TLC

VARIABLES
    impl,        \* which backend _pImpl holds: "memory" or "file"
    _options,    \* TxMemoryCache::_options / TxFileStorage::_options
    _cacheLimit, \* TxMemoryCache::_cacheLimit (0 for the file backend)
    _totalSize,  \* _totalSize of the backend
    _cache,      \* TxMemoryCache::_cache: checksum -> TXCACHE
    _cachelist,  \* TxMemoryCache::_cachelist: sequence of list nodes
    _gzdest0,    \* TxMemoryCache::_gzdest0 (a pointer)
    _gzdest1,    \* TxMemoryCache::_gzdest1 (a pointer)
    _gzdestLen,  \* TxMemoryCache::_gzdestLen
    _storage,    \* TxFileStorage::_storage: checksum -> file offset
    file,        \* the cache file on disk that save and load name
    lastOp,      \* the call that was made last, with its arguments
    ret,         \* what that call returned
    out,         \* the GHQTexInfo the caller handed to that call, after it
    log          \* calls made so far (kept under SpecLog and SpecRoundTrip)

vars == <<impl, _options, _cacheLimit, _totalSize, _cache, _cachelist,
          _gzdest0, _gzdest1, _gzdestLen, _storage, file, lastOp, ret, out,
          log>>

memVars == <<_totalSize, _cache, _cachelist>>
ctorVars == <<impl, _cacheLimit, _gzdest0, _gzdest1, _gzdestLen>>
fixedVars == <<ctorVars, _storage, file>>

----------------------------------------------------------------------------
(* Bounds of the model *)

MaxChecksum == 3   \* checksums 0..MaxChecksum (0 is the invalid checksum)
MaxLimit == 2      \* byte budgets 0..MaxLimit (0 = no eviction)
MaxLog == MaxChecksum + 1  \* calls recorded per run of SpecLog

Checksums == 0..MaxChecksum
CacheLimits == 0..MaxLimit

----------------------------------------------------------------------------
(* Data model *)

Range(s) == {s[i] : i \in 1..Len(s)}

\* Pointers are kept by what they point into.
NullPtr == "nullptr"
CallerPtr == "caller"
HeapPtr == "heap"

NullData == [ptr |-> NullPtr, bytes |-> <<>>]
CallerData(bytes) == [ptr |-> CallerPtr, bytes |-> bytes]

\* info->format: the colour format with the GL_TEXFMT_GZ bit kept apart.
Fmt(base, gz) == [base |-> base, gz |-> gz]

TexInfo(data, w, h, format, tf, pt, hires) ==
    [data |-> data, width |-> w, height |-> h, format |-> format,
     texture_format |-> tf, pixel_type |-> pt, is_hires_tex |-> hires]

\* A GHQTexInfo the caller has not filled in.
NoInfo == TexInfo(NullData, 0, 0, Fmt("NONE", FALSE), "NONE", "NONE", FALSE)

\* TxUtil::sizeofTx: bytes of a width x height texture, 0 for a format it
\* does not know (a format word carrying the GZ bit is none it knows).
sizeofTx(width, height, format) ==
    IF format.gz THEN 0
    ELSE CASE format.base = "COLOR_INDEX8" -> width * height
           [] format.base \in {"RGBA4", "RGB5_A1", "RGB"} -> (width * height) * 2
           [] format.base = "RGBA8" -> (width * height) * 4
           [] OTHER -> 0

\* zlib, as the codec the cache calls: a stream is a header byte, the length
\* of the data and the data.
compress(bytes) == <<120, Len(bytes)>> \o bytes
ValidStream(src) ==
    /\ Len(src) >= 2
    /\ src[1] = 120
    /\ src[2] = Len(src) - 2
\* The data a valid stream holds.
inflate(src) == SubSeq(src, 3, Len(src))
\* uncompress(dest, &destLen, source, sourceLen): its return code, and the
\* data written to dest. Z_OK when zlib got its memory, the stream is valid
\* and its data fits in destLen bytes.
uncompress(destLen, src, zmemOk) ==
    IF ~zmemOk THEN [code |-> "Z_MEM_ERROR", bytes |-> <<>>]
    ELSE IF ~ValidStream(src) THEN [code |-> "Z_DATA_ERROR", bytes |-> <<>>]
    ELSE IF Len(inflate(src)) > destLen THEN [code |-> "Z_BUF_ERROR", bytes |-> <<>>]
    ELSE [code |-> "Z_OK", bytes |-> inflate(src)]

----------------------------------------------------------------------------
(* TxMemoryCache *)

\* std::list<uint64>: a node is kept by its value and an id telling apart
\* nodes of equal value; an iterator is the node it designates.
FreshNode(list, checksum) ==
    LET free(k) == [val |-> checksum, id |-> k] \notin Range(list)
    IN [val |-> checksum,
        id |-> CHOOSE k \in 1..(Len(list) + 1) :
                   free(k) /\ \A j \in 1..(k - 1) : ~free(j)]
push_back(list, node) == Append(list, node)
erase(list, it) == SelectSeq(list, LAMBDA n : n # it)
\* TXCACHE::it of an entry made while no list is kept: never assigned.
NoIt == [val |-> 0, id |-> 0]

MapErase(cache, checksum) == [k \in DOMAIN cache \ {checksum} |-> cache[k]]
\* std::map::insert: keeps the mapped value of a key that is already there.
MapInsert(cache, checksum, entry) ==
    IF checksum \in DOMAIN cache THEN cache
    ELSE [k \in DOMAIN cache \cup {checksum} |->
              IF k = checksum THEN entry ELSE cache[k]]

isCachedMem(checksum) == checksum \in DOMAIN _cache

\* addRejects without the test for a checksum that is already cached.
addRejects_noDuplicateTest(cache, checksum, info) ==
    \/ checksum = 0
    \/ info.data.ptr = NullPtr

\* add, line 122: the calls add turns down before it looks at the size.
addRejects(cache, checksum, info) ==
    \/ checksum = 0
    \/ info.data.ptr = NullPtr
    \/ checksum \in DOMAIN cache

\* addDataSize that takes one byte per pixel whatever the format.
addDataSize_anyFormat(info, dataSize) ==
    IF dataSize = 0 THEN info.width * info.height ELSE dataSize

\* add, lines 128-133: the size to store, 0 when it cannot be computed.
addDataSize(info, dataSize) ==
    IF dataSize = 0 THEN sizeofTx(info.width, info.height, info.format)
    ELSE dataSize

\* evictEnough with the comparison turned round.
evictEnough_inverted(total, limit) == total >= limit

\* add, line 154: the eviction loop stops once the total is within the limit.
evictEnough(total, limit) == total <= limit

\* add, lines 140-158: walk _cachelist from its front, removing each checksum
\* from _cache, until the total fits or the list ends; the walked prefix is
\* erased from the list. Entered with a list that is not empty.
RECURSIVE evictLoop(_, _, _, _)
evictLoop(cache, list, total, limit) ==
    LET c == Head(list).val
        hit == c \in DOMAIN cache
        total1 == IF hit THEN total - cache[c].size ELSE total
        cache1 == IF hit THEN MapErase(cache, c) ELSE cache
        rest == Tail(list)
    IN IF evictEnough(total1, limit) \/ rest = <<>>
       THEN [cache |-> cache1, list |-> rest, total |-> total1]
       ELSE evictLoop(cache1, rest, total1, limit)

\* addEvict that empties the cache whenever the new record does not fit.
addEvict_all(m, limit, dataSize) ==
    IF limit # 0 /\ m.total + dataSize > limit /\ m.list # <<>>
    THEN [cache |-> [k \in {} |-> NoIt], list |-> <<>>, total |-> 0]
    ELSE m

\* addEvict that leaves the size of the new record in the total.
addEvict_keepProjected(m, limit, dataSize) ==
    IF limit # 0
    THEN LET total0 == m.total + dataSize
         IN IF total0 > limit /\ m.list # <<>>
            THEN evictLoop(m.cache, m.list, total0, limit)
            ELSE [cache |-> m.cache, list |-> m.list, total |-> total0]
    ELSE m

\* add, lines 136-163: make room for dataSize bytes under the cache limit.
addEvict(m, limit, dataSize) ==
    IF limit # 0
    THEN LET total0 == m.total + dataSize
             e == IF total0 > limit /\ m.list # <<>>
                  THEN evictLoop(m.cache, m.list, total0, limit)
                  ELSE [cache |-> m.cache, list |-> m.list, total |-> total0]
         IN [cache |-> e.cache, list |-> e.list, total |-> e.total - dataSize]
    ELSE m

\* addStore that records a position and does not append it to the list.
addStore_noPush(m, limit, checksum, info, dataSize) ==
    [cache |-> MapInsert(m.cache, checksum,
                         [size |-> dataSize,
                          info |-> [info EXCEPT
                                       !.data = [ptr |-> HeapPtr,
                                                 bytes |-> SubSeq(info.data.bytes,
                                                                  1, dataSize)]],
                          it |-> IF limit # 0 THEN FreshNode(m.list, checksum)
                                 ELSE NoIt]),
     list |-> m.list,
     total |-> m.total + dataSize]

\* add, lines 166-205: copy the payload and the record, link and insert it.
addStore(m, limit, checksum, info, dataSize) ==
    LET node == FreshNode(m.list, checksum)
        txCache == [size |-> dataSize,
                    info |-> [info EXCEPT
                                 !.data = [ptr |-> HeapPtr,
                                           bytes |-> SubSeq(info.data.bytes, 1, dataSize)]],
                    it |-> IF limit # 0 THEN node ELSE NoIt]
    IN [cache |-> MapInsert(m.cache, checksum, txCache),
        list |-> IF limit # 0 THEN push_back(m.list, node) ELSE m.list,
        total |-> m.total + dataSize]

\* TxMemoryCache::add on the memory state m = [cache, list, total]: the state
\* after the call, what it returned and what malloc did in it.
MemAdd(m, limit, checksum, info, dataSize, mallocOk) ==
    LET size == addDataSize(info, dataSize)
        same(alloc) == [ret |-> FALSE, alloc |-> alloc, cache |-> m.cache,
                        list |-> m.list, total |-> m.total]
    IN IF addRejects(m.cache, checksum, info) THEN same("none")
       ELSE IF size = 0 THEN same("none")
       ELSE LET e == addEvict(m, limit, size)
            IN IF ~mallocOk
               THEN [ret |-> FALSE, alloc |-> "malloc_failed", cache |-> e.cache,
                     list |-> e.list, total |-> e.total]
               ELSE LET s == addStore(e, limit, checksum, info, size)
                    IN [ret |-> TRUE, alloc |-> "malloc_ok", cache |-> s.cache,
                        list |-> s.list, total |-> s.total]

\* getPromote that leaves the list as it is.
getPromote_none(cache, list, limit, checksum) ==
    [cache |-> cache, list |-> list]

\* getPromote that puts the node at the front of the list.
getPromote_toFront(cache, list, limit, checksum) ==
    IF limit # 0
    THEN LET erased == erase(list, cache[checksum].it)
             node == FreshNode(erased, checksum)
         IN [cache |-> [cache EXCEPT ![checksum].it = node],
             list |-> <<node>> \o erased]
    ELSE [cache |-> cache, list |-> list]

\* get, lines 222-226: move the entry's node to the back of _cachelist.
getPromote(cache, list, limit, checksum) ==
    IF limit # 0
    THEN LET erased == erase(list, cache[checksum].it)
             node == FreshNode(erased, checksum)
         IN [cache |-> [cache EXCEPT ![checksum].it = node],
             list |-> push_back(erased, node)]
    ELSE [cache |-> cache, list |-> list]

\* get, line 231: the scratch buffer a compressed entry is inflated into.
gzDest(data) == IF _gzdest0 = data.ptr THEN _gzdest1 ELSE _gzdest0

\* getInflate that leaves the compressed flag set in the record handed back.
getInflate_keepFlag(info, size, zmemOk) ==
    IF info.format.gz
    THEN LET z == uncompress(_gzdestLen, SubSeq(info.data.bytes, 1, size), zmemOk)
         IN IF z.code # "Z_OK"
            THEN [ret |-> FALSE, zlib |-> z.code, out |-> info]
            ELSE [ret |-> TRUE, zlib |-> z.code,
                  out |-> [info EXCEPT
                              !.data = [ptr |-> gzDest(info.data), bytes |-> z.bytes]]]
    ELSE [ret |-> TRUE, zlib |-> "none", out |-> info]

\* get, lines 229-241: what the caller's record holds on return, given the
\* copy of the entry's record made at line 219.
getInflate(info, size, zmemOk) ==
    IF info.format.gz
    THEN LET z == uncompress(_gzdestLen, SubSeq(info.data.bytes, 1, size), zmemOk)
         IN IF z.code # "Z_OK"
            THEN [ret |-> FALSE, zlib |-> z.code, out |-> info]
            ELSE [ret |-> TRUE, zlib |-> z.code,
                  out |-> [info EXCEPT
                              !.data = [ptr |-> gzDest(info.data), bytes |-> z.bytes],
                              !.format = Fmt(info.format.base, FALSE)]]
    ELSE [ret |-> TRUE, zlib |-> "none", out |-> info]

\* get, lines 212-217: whether the call finds an entry.
getHits(cache, checksum) ==
    /\ checksum # 0
    /\ DOMAIN cache # {}
    /\ checksum \in DOMAIN cache

\* MemGet that looks the checksum up with _cache[checksum], which makes an
\* entry for a checksum that has none.
MemGet_insertOnMiss(checksum, info0, zmemOk) ==
    IF getHits(_cache, checksum)
    THEN LET p == getPromote(_cache, _cachelist, _cacheLimit, checksum)
             g == getInflate(_cache[checksum].info, _cache[checksum].size, zmemOk)
         IN [ret |-> g.ret, zlib |-> g.zlib, out |-> g.out,
             cache |-> p.cache, list |-> p.list]
    ELSE [ret |-> FALSE, zlib |-> "none", out |-> info0,
          cache |-> IF checksum # 0 /\ DOMAIN _cache # {}
                    THEN MapInsert(_cache, checksum,
                                   [size |-> 0, info |-> NoInfo, it |-> NoIt])
                    ELSE _cache,
          list |-> _cachelist]

\* MemGet that drops an entry it could not inflate.
MemGet_dropOnFail(checksum, info0, zmemOk) ==
    IF getHits(_cache, checksum)
    THEN LET p == getPromote(_cache, _cachelist, _cacheLimit, checksum)
             g == getInflate(_cache[checksum].info, _cache[checksum].size, zmemOk)
         IN [ret |-> g.ret, zlib |-> g.zlib, out |-> g.out,
             cache |-> IF g.ret THEN p.cache ELSE MapErase(p.cache, checksum),
             list |-> IF g.ret THEN p.list
                      ELSE erase(p.list, p.cache[checksum].it)]
    ELSE [ret |-> FALSE, zlib |-> "none", out |-> info0,
          cache |-> _cache, list |-> _cachelist]

\* TxMemoryCache::get: the state after the call, what it returned, what the
\* caller's record (info0 before the call) holds.
MemGet(checksum, info0, zmemOk) ==
    IF getHits(_cache, checksum)
    THEN LET p == getPromote(_cache, _cachelist, _cacheLimit, checksum)
             g == getInflate(_cache[checksum].info, _cache[checksum].size, zmemOk)
         IN [ret |-> g.ret, zlib |-> g.zlib, out |-> g.out,
             cache |-> p.cache, list |-> p.list]
    ELSE [ret |-> FALSE, zlib |-> "none", out |-> info0,
          cache |-> _cache, list |-> _cachelist]

\* del, lines 318-322: whether the call finds an entry.
delHits(cache, checksum) ==
    /\ checksum # 0
    /\ DOMAIN cache # {}
    /\ checksum \in DOMAIN cache

\* delRemove that leaves the running total as it is.
delRemove_keepTotal(cache, list, total, checksum) ==
    [cache |-> MapErase(cache, checksum),
     list |-> IF list # <<>> THEN erase(list, cache[checksum].it) ELSE list,
     total |-> total]

\* del, lines 324-332: unlink and remove the entry found.
delRemove(cache, list, total, checksum) ==
    [cache |-> MapErase(cache, checksum),
     list |-> IF list # <<>> THEN erase(list, cache[checksum].it) ELSE list,
     total |-> total - cache[checksum].size]

\* TxMemoryCache::del
MemDel(checksum) ==
    IF delHits(_cache, checksum)
    THEN LET d == delRemove(_cache, _cachelist, _totalSize, checksum)
         IN [ret |-> TRUE, cache |-> d.cache, list |-> d.list, total |-> d.total]
    ELSE [ret |-> FALSE, cache |-> _cache, list |-> _cachelist, total |-> _totalSize]

EmptyMap == [k \in {} |-> NoIt]

\* clear that leaves the running total as it is.
MemClear_keepTotal == [cache |-> EmptyMap, list |-> <<>>, total |-> _totalSize]

\* TxMemoryCache::clear
MemClear == [cache |-> EmptyMap, list |-> <<>>, total |-> 0]

\* TxMemoryCache::save: the body is disabled, nothing is written.
MemSave(f, cache, config) == [ret |-> FALSE, file |-> f]

\* What load finds in tmpInfo and in the block it allocated on the pass of
\* its loop that follows the last record. gzeof answers false until a read
\* has come up short, so the loop runs once more; every gzread of that pass
\* reads nothing, checksum and dataSize keep the values of the last record,
\* and tmpInfo and the block are not initialized: they hold what the last
\* pass left there ("kept"), or a format that has no size ("unknown").
StaleKinds == {"kept", "unknown"}
stalePass(rec, stale) ==
    [checksum |-> rec.checksum, dataSize |-> rec.dataSize,
     info |-> IF stale = "kept" THEN rec.info
              ELSE [rec.info EXCEPT !.format = Fmt("UNKNOWN", FALSE)]]

\* the passes of load's loop over a file: one for each record, and the last
loadPasses(f, stale) ==
    f.records \o <<stalePass(f.records[Len(f.records)], stale)>>

\* what malloc answers on a pass: "tmp_failed" when the block for the
\* payload is refused (the payload is skipped), "add_failed" when the one
\* add asks for is refused
AllocOutcomes == {"ok", "tmp_failed", "add_failed"}

\* TxMemoryCache::load, the loop: every pass hands its record to add
RECURSIVE loadLoop(_, _, _, _)
loadLoop(m, limit, passes, allocs) ==
    IF passes = <<>> THEN m
    ELSE LET p == Head(passes)
             r == MemAdd(m, limit, p.checksum, p.info,
                         IF p.info.format.gz THEN p.dataSize ELSE 0,
                         Head(allocs) # "add_failed")
             n == IF Head(allocs) = "tmp_failed" THEN m
                  ELSE [cache |-> r.cache, list |-> r.list, total |-> r.total]
         IN loadLoop(n, limit, Tail(passes), Tail(allocs))

\* TxMemoryCache::load: f is the file (one that holds a record at least),
\* run says whether gzopen opens it and what the allocations answer
MemLoad(m, limit, f, config, force, run) ==
    LET reads == run.open /\ (f.config = config \/ force)
        n == IF reads
             THEN loadLoop(m, limit, loadPasses(f, run.stale), run.allocs)
             ELSE m
    IN [ret |-> DOMAIN n.cache # {},
        res |-> IF ~run.open THEN "open_failed"
                ELSE IF ~reads THEN "config_mismatch" ELSE "loaded",
        cache |-> n.cache, list |-> n.list, total |-> n.total]

----------------------------------------------------------------------------
(* TxFileStorage *)

\* TxFileStorage::open: the body is disabled, no file is ever opened.
fileOpen(forRead) == FALSE
\* TxFileStorage::add
FileAdd(checksum, info, dataSize) == TRUE
\* an add that enters the checksum in the index, at offset 0
FileAddEffect_indexes(storage, total, checksum) ==
    [storage |-> [k \in DOMAIN storage \cup {checksum} |->
                     IF k \in DOMAIN storage THEN storage[k] ELSE 0],
     total |-> total]
\* what TxFileStorage::add leaves of the index and of the total
FileAddEffect(storage, total, checksum) ==
    [storage |-> storage, total |-> total]
\* TxFileStorage::get: the index entry, then the file, which never opens.
FileGet(checksum) ==
    IF checksum = 0 \/ DOMAIN _storage = {} THEN FALSE
    ELSE IF checksum \notin DOMAIN _storage THEN FALSE
    ELSE IF ~fileOpen(TRUE) THEN FALSE
    ELSE TRUE
\* TxFileStorage::del
FileDel(checksum) == FALSE
FileDelEffect(storage, total, checksum) ==
    [storage |-> storage, total |-> total]
\* TxFileStorage::clear
FileClearEffect(storage, total) == [storage |-> storage, total |-> total]
\* TxFileStorage::save
FileSave(f, storage, config) == [ret |-> TRUE, file |-> f]
FileSaveEffect(storage, total) == [storage |-> storage, total |-> total]
\* a load that reports the file as read
FileLoad_read(f, config, force) == TRUE
\* TxFileStorage::load
FileLoad(f, config, force) == FALSE
isCachedFile(checksum) == checksum \in DOMAIN _storage

----------------------------------------------------------------------------
(* TxCache: the facade's observers, forwarded to the backend *)

isCached(checksum) ==
    IF impl = "memory" THEN isCachedMem(checksum) ELSE isCachedFile(checksum)
empty == IF impl = "memory" THEN DOMAIN _cache = {} ELSE DOMAIN _storage = {}
size == IF impl = "memory" THEN Cardinality(DOMAIN _cache)
        ELSE Cardinality(DOMAIN _storage)
totalSize == _totalSize
cacheLimit == IF impl = "memory" THEN _cacheLimit ELSE 0
getOptions == _options

----------------------------------------------------------------------------
(* What callers pass *)

OptionSets == {{}, {"FILE_TEXCACHE"}}
FILE_CACHE_MASK == {"FILE_TEXCACHE"}

plainA == TexInfo(CallerData(<<1>>), 1, 1, Fmt("COLOR_INDEX8", FALSE),
                  "RGBA", "UNSIGNED_BYTE", FALSE)
plain2 == TexInfo(CallerData(<<3, 4>>), 1, 1, Fmt("RGBA4", FALSE),
                  "RGB", "UNSIGNED_SHORT_4_4_4_4", TRUE)
\* a 1x1 texture, zlib compressed
gzOne == TexInfo(CallerData(compress(<<5>>)), 1, 1, Fmt("COLOR_INDEX8", TRUE),
                 "RGBA", "UNSIGNED_BYTE", TRUE)
\* a compressed stream that holds no data
gzNone == TexInfo(CallerData(compress(<<>>)), 0, 0, Fmt("COLOR_INDEX8", TRUE),
                  "RGBA", "UNSIGNED_BYTE", FALSE)
\* a format sizeofTx does not know
unknownFmt == TexInfo(CallerData(<<6>>), 1, 1, Fmt("UNKNOWN", FALSE),
                      "RGBA", "UNSIGNED_BYTE", FALSE)
\* no payload
nullInfo == TexInfo(NullData, 1, 1, Fmt("COLOR_INDEX8", FALSE),
                    "RGBA", "UNSIGNED_BYTE", FALSE)

\* The (info, dataSize) pairs handed to add. A payload is as long as the size
\* the call stores: the computed size when dataSize is 0, else dataSize.
AddArgs ==
    {<<plainA, 0>>, <<plain2, 0>>,
     <<gzOne, Len(gzOne.data.bytes)>>, <<gzNone, Len(gzNone.data.bytes)>>,
     <<gzOne, 0>>, <<unknownFmt, 0>>, <<nullInfo, 0>>}

\* The fingerprints _getConfig may yield, and the file on disk: one written
\* under fingerprint 1 by a build whose save was not disabled, a record
\* after the other, each with the size of its payload.
Configs == {1, 2}
Record(checksum, info) ==
    [checksum |-> checksum, info |-> info, dataSize |-> Len(info.data.bytes)]
FileA == [config |-> 1, records |-> <<Record(1, plainA), Record(2, gzNone)>>]

\* The runs of load over that file: gzopen fails, or it opens the file and
\* at most one allocation made for a record is refused. What the pass after
\* the last record finds matters only when the last record was not stored.
AllOk == [i \in 1..(Len(FileA.records) + 1) |-> "ok"]
Run(open, allocs, stale) == [open |-> open, allocs |-> allocs, stale |-> stale]
OpenRuns ==
    {Run(TRUE, AllOk, "kept")}
    \cup UNION {{Run(TRUE, [AllOk EXCEPT ![i] = a], s) :
                    a \in AllocOutcomes \ {"ok"},
                    s \in IF i = Len(FileA.records) THEN StaleKinds
                          ELSE {"kept"}} : i \in DOMAIN FileA.records}

\* The loads: the file does not open; it was written under another
\* fingerprint, and is refused or forced; it is read.
LoadArgs(config, force, run) == [config |-> config, force |-> force, run |-> run]
LoadInputs ==
    {LoadArgs(FileA.config, FALSE, Run(FALSE, AllOk, "kept"))}
    \cup {LoadArgs(c, force, Run(TRUE, AllOk, "kept")) :
             c \in Configs \ {FileA.config}, force \in BOOLEAN}
    \cup {LoadArgs(FileA.config, FALSE, run) : run \in OpenRuns}

----------------------------------------------------------------------------
(* TxCache: construction and the calls *)

\* A call as the caller saw it: its arguments, what malloc or zlib did in it
\* ("none" when the call did not get that far) and the checksums it removed
\* from the lookup map.
Call(op, checksum, info, dataSize, res, removed) ==
    [op |-> op, checksum |-> checksum, info |-> info, dataSize |-> dataSize,
     res |-> res, removed |-> removed]

\* The construction as the caller saw it.
NewCall(options, cachesize) ==
    [op |-> "new", checksum |-> 0, info |-> NoInfo, dataSize |-> 0,
     res |-> "none", removed |-> {}, options |-> options,
     cachesize |-> cachesize]

\* a constructor that makes the memory backend whatever the options
selectImpl_memory(options) == "memory"

\* the backend the constructor makes
selectImpl(options) ==
    IF (options \cap FILE_CACHE_MASK) = {} THEN "memory" ELSE "file"

\* TxCache::TxCache(options, cachesize, ...)
Construct(options, cachesize) ==
    /\ _options = options
    /\ impl = selectImpl(options)
    /\ _cacheLimit = IF impl = "memory" THEN cachesize ELSE 0
    /\ _totalSize = 0
    /\ _cache = EmptyMap
    /\ _cachelist = <<>>
    /\ _gzdest0 = NullPtr
    /\ _gzdest1 = NullPtr
    /\ _gzdestLen = 0
    /\ _storage = EmptyMap
    /\ lastOp = NewCall(options, cachesize)
    /\ ret = FALSE
    /\ out = NoInfo

Init ==
    /\ \E options \in OptionSets, cachesize \in CacheLimits :
           Construct(options, cachesize)
    /\ file = FileA
    /\ log = <<>>

\* TxCache::add
add(checksum, info, dataSize, mallocOk) ==
    /\ IF impl = "memory"
       THEN LET r == MemAdd([cache |-> _cache, list |-> _cachelist,
                             total |-> _totalSize],
                            _cacheLimit, checksum, info, dataSize, mallocOk)
            IN /\ _cache' = r.cache
               /\ _cachelist' = r.list
               /\ _totalSize' = r.total
               /\ ret' = r.ret
               /\ lastOp' = Call("add", checksum, info, dataSize, r.alloc,
                                 DOMAIN _cache \ DOMAIN r.cache)
               /\ _storage' = _storage
       ELSE LET e == FileAddEffect(_storage, _totalSize, checksum)
            IN /\ ret' = FileAdd(checksum, info, dataSize)
               /\ lastOp' = Call("add", checksum, info, dataSize, "none", {})
               /\ _storage' = e.storage
               /\ _totalSize' = e.total
               /\ UNCHANGED <<_cache, _cachelist>>
    /\ out' = NoInfo
    /\ UNCHANGED <<ctorVars, file, _options>>

\* TxCache::get, the caller handing in a record it has not filled in
get(checksum, zmemOk) ==
    /\ IF impl = "memory"
       THEN LET r == MemGet(checksum, NoInfo, zmemOk)
            IN /\ _cache' = r.cache
               /\ _cachelist' = r.list
               /\ ret' = r.ret
               /\ out' = r.out
               /\ lastOp' = Call("get", checksum, NoInfo, 0, r.zlib, {})
       ELSE /\ ret' = FileGet(checksum)
            /\ out' = NoInfo
            /\ lastOp' = Call("get", checksum, NoInfo, 0, "none", {})
            /\ UNCHANGED <<_cache, _cachelist>>
    /\ UNCHANGED <<fixedVars, _options, _totalSize>>

\* TxCache::del
del(checksum) ==
    /\ IF impl = "memory"
       THEN LET r == MemDel(checksum)
            IN /\ _cache' = r.cache
               /\ _cachelist' = r.list
               /\ _totalSize' = r.total
               /\ ret' = r.ret
               /\ lastOp' = Call("del", checksum, NoInfo, 0, "none",
                                 DOMAIN _cache \ DOMAIN r.cache)
               /\ _storage' = _storage
       ELSE LET e == FileDelEffect(_storage, _totalSize, checksum)
            IN /\ ret' = FileDel(checksum)
               /\ lastOp' = Call("del", checksum, NoInfo, 0, "none", {})
               /\ _storage' = e.storage
               /\ _totalSize' = e.total
               /\ UNCHANGED <<_cache, _cachelist>>
    /\ out' = NoInfo
    /\ UNCHANGED <<ctorVars, file, _options>>

\* TxCache::clear (returns nothing: ret is left FALSE)
clear ==
    /\ IF impl = "memory"
       THEN /\ _cache' = MemClear.cache
            /\ _cachelist' = MemClear.list
            /\ _totalSize' = MemClear.total
            /\ lastOp' = Call("clear", 0, NoInfo, 0, "none", DOMAIN _cache)
            /\ _storage' = _storage
       ELSE LET e == FileClearEffect(_storage, _totalSize)
            IN /\ lastOp' = Call("clear", 0, NoInfo, 0, "none", {})
               /\ _storage' = e.storage
               /\ _totalSize' = e.total
               /\ UNCHANGED <<_cache, _cachelist>>
    /\ ret' = FALSE
    /\ out' = NoInfo
    /\ UNCHANGED <<ctorVars, file, _options>>

\* TxCache::setOptions (returns nothing)
setOptions(options) ==
    /\ _options' = options
    /\ ret' = FALSE
    /\ lastOp' = Call("setOptions", 0, NoInfo, 0, "none", {})
    /\ out' = NoInfo
    /\ UNCHANGED <<fixedVars, memVars>>

\* A save or a load as the caller saw it.
FileCall(op, config, force, res, removed) ==
    [op |-> op, checksum |-> 0, info |-> NoInfo, dataSize |-> 0,
     res |-> res, removed |-> removed, config |-> config, force |-> force]

\* TxCache::save, _getConfig yielding config
save(config) ==
    /\ IF impl = "memory"
       THEN LET r == MemSave(file, _cache, config)
            IN /\ ret' = r.ret
               /\ file' = r.file
               /\ UNCHANGED <<memVars, _storage>>
       ELSE LET r == FileSave(file, _storage, config)
                e == FileSaveEffect(_storage, _totalSize)
            IN /\ ret' = r.ret
               /\ file' = r.file
               /\ _storage' = e.storage
               /\ _totalSize' = e.total
               /\ UNCHANGED <<_cache, _cachelist>>
    /\ lastOp' = FileCall("save", config, FALSE, "none", {})
    /\ out' = NoInfo
    /\ UNCHANGED <<ctorVars, _options>>

\* TxCache::load, _getConfig yielding config
load(config, force, run) ==
    /\ IF impl = "memory"
       THEN LET r == MemLoad([cache |-> _cache, list |-> _cachelist,
                              total |-> _totalSize],
                             _cacheLimit, file, config, force, run)
            IN /\ _cache' = r.cache
               /\ _cachelist' = r.list
               /\ _totalSize' = r.total
               /\ ret' = r.ret
               /\ lastOp' = FileCall("load", config, force, r.res,
                                     DOMAIN _cache \ DOMAIN r.cache)
       ELSE /\ ret' = FileLoad(file, config, force)
            /\ lastOp' = FileCall("load", config, force, "none", {})
            /\ UNCHANGED memVars
    /\ out' = NoInfo
    /\ UNCHANGED <<fixedVars, _options>>

\* malloc answers only an add that asks it (line 166), zlib only a get that
\* inflates (line 232): the answer is an input of those calls alone.
CallAdd ==
    \E checksum \in Checksums, a \in AddArgs :
        \E mallocOk \in IF /\ impl = "memory"
                            /\ ~addRejects(_cache, checksum, a[1])
                            /\ addDataSize(a[1], a[2]) # 0
                         THEN BOOLEAN ELSE {TRUE} :
            add(checksum, a[1], a[2], mallocOk) /\ UNCHANGED log
CallGet ==
    \E checksum \in Checksums :
        \E zmemOk \in IF /\ impl = "memory"
                          /\ getHits(_cache, checksum)
                          /\ _cache[checksum].info.format.gz
                       THEN BOOLEAN ELSE {TRUE} :
            get(checksum, zmemOk) /\ UNCHANGED log
CallDel == \E checksum \in Checksums : del(checksum) /\ UNCHANGED log
CallClear == clear /\ UNCHANGED log
CallSetOptions == \E options \in OptionSets : setOptions(options) /\ UNCHANGED log
CallSave == \E config \in Configs : save(config) /\ UNCHANGED log
CallLoad ==
    \E a \in LoadInputs : load(a.config, a.force, a.run) /\ UNCHANGED log

Next ==
    \/ CallAdd
    \/ CallGet
    \/ CallDel
    \/ CallClear
    \/ CallSetOptions
    \/ CallSave
    \/ CallLoad

Spec == Init /\ [][Next]_vars

----------------------------------------------------------------------------
(* The memory backend under a budget, with the successful calls recorded *)

\* What the log keeps of a call: the call, and the checksums cached before it.
Logged(call, before) ==
    [op |-> call.op, checksum |-> call.checksum, removed |-> call.removed,
     before |-> before]

PlainArgs == {<<plainA, 0>>, <<plain2, 0>>}

InitLog ==
    /\ Init
    /\ impl = "memory"
    /\ _cacheLimit # 0

LogAdd ==
    \E checksum \in Checksums, a \in PlainArgs :
        /\ Len(log) < MaxLog
        /\ add(checksum, a[1], a[2], TRUE)
        /\ ret'
        /\ log' = Append(log, Logged(lastOp', DOMAIN _cache))
LogGet ==
    \E checksum \in Checksums :
        /\ Len(log) < MaxLog
        /\ get(checksum, TRUE)
        /\ ret'
        /\ log' = Append(log, Logged(lastOp', DOMAIN _cache))

NextLog == LogAdd \/ LogGet

SpecLog == InitLog /\ [][NextLog]_vars

----------------------------------------------------------------------------
(* A cache that is saved, and the file read back by a cache made anew *)

\* ~TxCache, then TxCache::TxCache with the same options and budget
renew ==
    /\ _totalSize' = 0
    /\ _cache' = EmptyMap
    /\ _cachelist' = <<>>
    /\ _storage' = EmptyMap
    /\ lastOp' = NewCall(_options, _cacheLimit)
    /\ ret' = FALSE
    /\ out' = NoInfo
    /\ UNCHANGED <<ctorVars, _options, file>>

\* the payload a record stands for: its bytes, inflated if it is compressed
Payload(info, n) ==
    IF info.format.gz THEN inflate(SubSeq(info.data.bytes, 1, n))
    ELSE SubSeq(info.data.bytes, 1, n)

\* what a cache holds: for each checksum, the payload its entry stands for
Held(cache) ==
    [c \in DOMAIN cache |-> Payload(cache[c].info, cache[c].size)]

\* Here the log starts with the save: the fingerprint it was given and what
\* the cache held then; the construction and the load follow.
Saved(call, cache) == [op |-> call.op, config |-> call.config, held |-> Held(cache)]

TripArgs == PlainArgs \cup {<<gzNone, Len(gzNone.data.bytes)>>}

InitTrip ==
    /\ Init
    /\ impl = "memory"

TripAdd ==
    \E checksum \in Checksums, a \in TripArgs :
        /\ log = <<>>
        /\ add(checksum, a[1], a[2], TRUE)
        /\ UNCHANGED log
TripSave ==
    \E config \in Configs :
        /\ log = <<>>
        /\ save(config)
        /\ log' = <<Saved(lastOp', _cache)>>
TripNew ==
    /\ Len(log) = 1
    /\ renew
    /\ log' = Append(log, [op |-> "new"])
\* the load finds the file, and every allocation it asks for is granted
TripLoad ==
    /\ Len(log) = 2
    /\ load(log[1].config, FALSE, Run(TRUE, AllOk, "kept"))
    /\ log' = Append(log, [op |-> "load"])

NextTrip == TripAdd \/ TripSave \/ TripNew \/ TripLoad

SpecRoundTrip == InitTrip /\ [][NextTrip]_vars

----------------------------------------------------------------------------
(* Claims *)

Mem == impl = "memory"

\* the size add stores for the record of a call
StoredSize(call) == addDataSize(call.info, call.dataSize)

\* the metadata of two records agree (the format up to its compressed flag)
SameMeta(a, b) ==
    /\ a.width = b.width
    /\ a.height = b.height
    /\ a.format.base = b.format.base
    /\ a.texture_format = b.texture_format
    /\ a.pixel_type = b.pixel_type
    /\ a.is_hires_tex = b.is_hires_tex

\* this step is an add of a valid record under a checksum that is not cached
AddOfNew ==
    /\ Mem
    /\ lastOp'.op = "add"
    /\ lastOp'.checksum # 0
    /\ lastOp'.checksum \notin DOMAIN _cache
    /\ lastOp'.info.data.ptr # NullPtr
    /\ StoredSize(lastOp') # 0

\* this step is the get of the checksum the call before it added
GetAfterAdd ==
    /\ Mem
    /\ lastOp.op = "add"
    /\ ret
    /\ lastOp'.op = "get"
    /\ lastOp'.checksum = lastOp.checksum

\* C1: memory backend: an add of a valid record under a checksum that is not
\* cached returns true, and the get that follows it returns true with the
\* metadata passed to add and the payload: the original bytes of an
\* uncompressed record, the inflated bytes of a compressed one. (Stated with
\* malloc and zlib getting their memory, which only weakens it.)
C1_AddThenGet ==
    [][/\ (AddOfNew /\ lastOp'.res # "malloc_failed") => ret'
       /\ (GetAfterAdd /\ lastOp'.res # "Z_MEM_ERROR") =>
              /\ ret'
              /\ SameMeta(out', lastOp.info)
              /\ out'.data.bytes = Payload(lastOp.info, StoredSize(lastOp))]_vars

\* C1 for uncompressed records alone, which the code keeps.
C1_PlainAddThenGet ==
    [][/\ (AddOfNew /\ lastOp'.res # "malloc_failed") => ret'
       /\ (GetAfterAdd /\ ~lastOp.info.format.gz) =>
              /\ ret'
              /\ SameMeta(out', lastOp.info)
              /\ out'.format = lastOp.info.format
              /\ out'.data.bytes = Payload(lastOp.info, StoredSize(lastOp))]_vars

\* C2: memory backend: add under a checksum that is already cached returns
\* false and leaves the lookup map (every entry's record, payload and size),
\* the LRU list and the total as they were, whatever the budget and the record.
C2_DuplicateAdd ==
    [][(Mem /\ lastOp'.op = "add" /\ lastOp'.checksum \in DOMAIN _cache) =>
           /\ ret' = FALSE
           /\ UNCHANGED <<_cache, _cachelist, _totalSize>>]_vars

\* A duplicate add was turned down: of a valid record that differs from the one
\* stored, under a budget its size would have overrun.
C2_Witness ==
    /\ Mem
    /\ lastOp.op = "add"
    /\ ret = FALSE
    /\ lastOp.checksum \in DOMAIN _cache
    /\ lastOp.info.data.ptr # NullPtr
    /\ StoredSize(lastOp) # 0
    /\ lastOp.res = "none"
    /\ _cache[lastOp.checksum].info.data.bytes # lastOp.info.data.bytes
    /\ _cacheLimit # 0
    /\ _totalSize + StoredSize(lastOp) > _cacheLimit

\* C3: memory backend with a budget B > 0: the total is at most B, unless the
\* cache holds a single entry whose size alone exceeds B (so the total never
\* exceeds the larger of B and the largest size stored so far).
C3_Budget ==
    (Mem /\ _cacheLimit > 0) =>
        \/ _totalSize <= _cacheLimit
        \/ \E c \in DOMAIN _cache :
               /\ DOMAIN _cache = {c}
               /\ _cache[c].size = _totalSize

\* An add evicted what was cached and stored an entry larger than the budget.
C3_Witness ==
    /\ Mem
    /\ _cacheLimit > 0
    /\ lastOp.op = "add"
    /\ ret
    /\ lastOp.removed # {}
    /\ _totalSize > _cacheLimit

\* Calls i of the log that are a get of checksum c.
GetsOf(c, from, to) ==
    {i \in from..to : log[i].op = "get" /\ log[i].checksum = c}

\* The log ends with an add that evicted exactly one entry while a and b were
\* cached, a having been added at ia and fetched once since, b having been
\* added at ib, after a, and not fetched since.
C4_Scenario(a, b, ia, ib) ==
    LET n == Len(log)
    IN /\ a # b
       /\ ia < ib
       /\ ib < n
       /\ log[ia].op = "add" /\ log[ia].checksum = a
       /\ log[ib].op = "add" /\ log[ib].checksum = b
       /\ \A i \in (ia + 1)..(n - 1) : a \notin log[i].removed
       /\ \A i \in (ib + 1)..(n - 1) : b \notin log[i].removed
       /\ Cardinality(GetsOf(a, ia + 1, n - 1)) = 1
       /\ GetsOf(b, ib + 1, n - 1) = {}
       /\ log[n].op = "add"
       /\ {a, b} \subseteq log[n].before
       /\ Cardinality(log[n].removed) = 1

\* C4 as claimed: memory backend with a budget: with A added and then fetched
\* once, and B added after A and never fetched, a later add that evicts
\* exactly one entry evicts B and leaves A cached.
C4_Original ==
    \A a, b \in Checksums, ia, ib \in 1..Len(log) :
        C4_Scenario(a, b, ia, ib) => (isCached(a) /\ ~isCached(b))

\* C4 amended: the same, when the get of A came after B was added and A and B
\* are the only entries cached when the last add is made.
C4_EvictsUnfetched ==
    \A a, b \in Checksums, ia, ib \in 1..Len(log) :
        (/\ C4_Scenario(a, b, ia, ib)
         /\ GetsOf(a, ib + 1, Len(log) - 1) # {}
         /\ log[Len(log)].before = {a, b})
        => (isCached(a) /\ ~isCached(b))

\* Such a run was made: add A, add B, get A, then an add that evicted B alone.
C4_Witness ==
    \E a, b \in Checksums, ia, ib \in 1..Len(log) :
        /\ C4_Scenario(a, b, ia, ib)
        /\ GetsOf(a, ib + 1, Len(log) - 1) # {}
        /\ log[Len(log)].before = {a, b}
        /\ log[Len(log)].removed = {b}
        /\ isCached(a)
        /\ ~isCached(b)

\* the checksums of the LRU list, front first
ListVals(list) == [i \in 1..Len(list) |-> list[i].val]

\* C5: memory backend: del of a cached checksum returns true, removes it from
\* the lookup map and from the LRU list, lowers the total by its stored size
\* and the count by one, and leaves the other entries and their order as they
\* were; del of a checksum that is not cached returns false and changes nothing.
C5_Del ==
    [][(Mem /\ lastOp'.op = "del") =>
           LET c == lastOp'.checksum
           IN IF c \in DOMAIN _cache
              THEN /\ ret'
                   /\ c \notin DOMAIN _cache'
                   /\ c \notin Range(ListVals(_cachelist'))
                   /\ _totalSize' = _totalSize - _cache[c].size
                   /\ Cardinality(DOMAIN _cache') = Cardinality(DOMAIN _cache) - 1
                   /\ \A k \in DOMAIN _cache \ {c} :
                          k \in DOMAIN _cache' /\ _cache'[k] = _cache[k]
                   /\ _cachelist' = SelectSeq(_cachelist, LAMBDA n : n.val # c)
              ELSE /\ ret' = FALSE
                   /\ UNCHANGED <<_cache, _cachelist, _totalSize>>]_vars

\* A del removed one entry of a budgeted cache that holds another.
C5_Witness ==
    /\ Mem
    /\ lastOp.op = "del"
    /\ ret
    /\ lastOp.removed = {lastOp.checksum}
    /\ _cacheLimit # 0
    /\ _cachelist # <<>>
    /\ _totalSize > 0

\* C6: either backend: after clear the cache is empty, its count and total are
\* 0 and (memory backend) so is the LRU list, the budget and the options being
\* as before; an add of a valid record to a memory cache just cleared is taken,
\* whatever its checksum (malloc not failing).
C6_Clear ==
    [][/\ lastOp'.op = "clear" =>
              /\ empty'
              /\ size' = 0
              /\ totalSize' = 0
              /\ Mem => _cachelist' = <<>>
              /\ UNCHANGED <<_cacheLimit, _options, impl>>
       /\ (Mem /\ lastOp.op = "clear" /\ lastOp'.op = "add"
               /\ lastOp'.checksum # 0 /\ lastOp'.info.data.ptr # NullPtr
               /\ StoredSize(lastOp') # 0 /\ lastOp'.res # "malloc_failed") =>
              /\ ret'
              /\ lastOp'.checksum \in DOMAIN _cache']_vars

\* A clear emptied a budgeted memory cache that held entries.
C6_Witness ==
    /\ Mem
    /\ lastOp.op = "clear"
    /\ lastOp.removed # {}
    /\ _cacheLimit # 0
    /\ empty
    /\ totalSize = 0

\* C7: memory backend: add with checksum 0, with no payload, or with dataSize
\* 0 and a format whose size cannot be computed returns false and leaves the
\* lookup map, the LRU list and the total as they were.
C7_InvalidAdd ==
    [][(Mem /\ lastOp'.op = "add"
            /\ \/ lastOp'.checksum = 0
               \/ lastOp'.info.data.ptr = NullPtr
               \/ /\ lastOp'.dataSize = 0
                  /\ sizeofTx(lastOp'.info.width, lastOp'.info.height,
                              lastOp'.info.format) = 0) =>
           /\ ret' = FALSE
           /\ UNCHANGED <<_cache, _cachelist, _totalSize>>]_vars

\* An add of a record of unknown format was turned down by a cache whose
\* budget is used up.
C7_Witness ==
    /\ Mem
    /\ lastOp.op = "add"
    /\ ret = FALSE
    /\ lastOp.checksum # 0
    /\ lastOp.checksum \notin DOMAIN _cache
    /\ lastOp.info.data.ptr # NullPtr
    /\ lastOp.dataSize = 0
    /\ lastOp.info.format.base = "UNKNOWN"
    /\ _cacheLimit # 0
    /\ _totalSize >= _cacheLimit
    /\ _cachelist # <<>>

\* C8: memory backend: get returns false for checksum 0, on an empty cache and
\* for a checksum that is not cached, and then leaves the lookup map, the LRU
\* list and the total as they were.
C8_GetMiss ==
    [][(Mem /\ lastOp'.op = "get"
            /\ \/ lastOp'.checksum = 0
               \/ DOMAIN _cache = {}
               \/ lastOp'.checksum \notin DOMAIN _cache) =>
           /\ ret' = FALSE
           /\ UNCHANGED <<_cache, _cachelist, _totalSize>>]_vars

\* A get missed in a budgeted cache that holds other entries.
C8_Witness ==
    /\ Mem
    /\ lastOp.op = "get"
    /\ ret = FALSE
    /\ lastOp.checksum # 0
    /\ lastOp.checksum \notin DOMAIN _cache
    /\ DOMAIN _cache # {}
    /\ _cacheLimit # 0

\* this step is a get that finds a compressed entry
GetOfCompressed ==
    /\ Mem
    /\ lastOp'.op = "get"
    /\ lastOp'.checksum \in DOMAIN _cache
    /\ _cache[lastOp'.checksum].info.format.gz

\* C9: memory backend: a get of a compressed entry that returns true hands back
\* the entry's format without the compressed flag and the inflated data, and
\* the entry kept in the cache still has the flag and its compressed bytes.
C9_GetInflates ==
    [][(GetOfCompressed /\ ret') =>
           LET e == _cache[lastOp'.checksum]
           IN /\ out'.format = Fmt(e.info.format.base, FALSE)
              /\ out'.data.bytes = inflate(SubSeq(e.info.data.bytes, 1, e.size))
              /\ SameMeta(out', e.info)
              /\ lastOp'.checksum \in DOMAIN _cache'
              /\ _cache'[lastOp'.checksum].info = e.info
              /\ _cache'[lastOp'.checksum].size = e.size]_vars

\* A get of a compressed entry returned true.
C9_Witness ==
    /\ Mem
    /\ lastOp.op = "get"
    /\ ret
    /\ lastOp.res = "Z_OK"
    /\ lastOp.checksum \in DOMAIN _cache
    /\ _cache[lastOp.checksum].info.format.gz
    /\ ~out.format.gz

\* C10: memory backend: a get of a compressed entry whose decompression fails
\* returns false and leaves the entry cached with its bytes, size and format,
\* and the count and the total, as they were; a get of it that follows and
\* whose decompression succeeds returns true.
C10_FailedInflate ==
    [][/\ (GetOfCompressed /\ lastOp'.res # "Z_OK") =>
              /\ ret' = FALSE
              /\ DOMAIN _cache' = DOMAIN _cache
              /\ _cache'[lastOp'.checksum].info = _cache[lastOp'.checksum].info
              /\ _cache'[lastOp'.checksum].size = _cache[lastOp'.checksum].size
              /\ size' = size
              /\ totalSize' = totalSize
       /\ (Mem /\ lastOp.op = "get" /\ lastOp.res \notin {"none", "Z_OK"}
               /\ lastOp'.op = "get" /\ lastOp'.checksum = lastOp.checksum
               /\ lastOp'.res = "Z_OK") => ret']_vars

\* A get of a compressed entry failed in zlib and the entry is still cached.
C10_Witness ==
    /\ Mem
    /\ lastOp.op = "get"
    /\ ret = FALSE
    /\ lastOp.res \in {"Z_MEM_ERROR", "Z_BUF_ERROR", "Z_DATA_ERROR"}
    /\ lastOp.checksum \in DOMAIN _cache
    /\ _cache[lastOp.checksum].info.format.gz

\* C11: memory backend: a cache that holds any set of entries is saved, and a
\* cache made anew loads the file under the same fingerprint: the new cache
\* holds the checksums the old one held at the save, each with the same
\* payload (inflated, where the entry is compressed).
C11_RoundTrip ==
    (Len(log) = 3 /\ lastOp.op = "load") => Held(_cache) = log[1].held

\* this step is a load of the memory backend that read no record: gzopen
\* failed, or the file's fingerprint is not the one asked for and force is off
LoadRefused ==
    /\ Mem
    /\ lastOp'.op = "load"
    /\ lastOp'.res \in {"open_failed", "config_mismatch"}

\* C12: a load that cannot open the file, or that reads another fingerprint
\* with force off, returns false and leaves the lookup map, the LRU order and
\* the total as they were, whatever the cache holds.
C12_RefusedLoad ==
    [][LoadRefused => (~ret' /\ UNCHANGED memVars)]_vars
\* the part of C12 about the state alone
C12_RefusedLoadKeepsState ==
    [][LoadRefused => UNCHANGED memVars]_vars

\* the backend the arguments of the constructor call for, with its budget
AsConstructed ==
    lastOp.op = "new" =>
        /\ impl = IF "FILE_TEXCACHE" \in lastOp.options THEN "file" ELSE "memory"
        /\ cacheLimit = IF impl = "memory" THEN lastOp.cachesize ELSE 0

\* what the backend's own operation returns for the call this step makes
BackendRet ==
    LET c == lastOp'
        m == [cache |-> _cache, list |-> _cachelist, total |-> _totalSize]
    IN IF c.op = "add"
       THEN IF Mem
            THEN MemAdd(m, _cacheLimit, c.checksum, c.info, c.dataSize,
                        c.res # "malloc_failed").ret
            ELSE FileAdd(c.checksum, c.info, c.dataSize)
       ELSE IF c.op = "get"
       THEN IF Mem THEN MemGet(c.checksum, NoInfo, c.res # "Z_MEM_ERROR").ret
            ELSE FileGet(c.checksum)
       ELSE IF c.op = "del"
       THEN IF Mem THEN MemDel(c.checksum).ret ELSE FileDel(c.checksum)
       ELSE IF c.op = "save"
       THEN IF Mem THEN MemSave(file, _cache, c.config).ret
            ELSE FileSave(file, _storage, c.config).ret
       ELSE IF c.op = "load" /\ ~Mem THEN FileLoad(file, c.config, c.force)
       ELSE ret'

\* C13: the facade has the one backend its constructor made: the memory
\* backend with the budget asked for when the file-cache bit of the options
\* is unset, the file backend (cacheLimit() = 0) when it is set. No call
\* replaces it, setOptions changing that bit included (it changes the options
\* and nothing else), and a call returns what the backend's operation returns.
C13_OneBackend ==
    [][/\ AsConstructed
       /\ impl' = impl
       /\ cacheLimit' = cacheLimit
       /\ lastOp'.op = "setOptions" => UNCHANGED <<memVars, _storage, file>>
       /\ ret' = BackendRet]_vars
\* setOptions has set the file-cache bit on a memory backend with a budget,
\* or cleared it on a file backend
C13_Witness ==
    /\ lastOp.op = "setOptions"
    /\ \/ Mem /\ (_options \cap FILE_CACHE_MASK) # {} /\ cacheLimit = MaxLimit
       \/ ~Mem /\ (_options \cap FILE_CACHE_MASK) = {} /\ cacheLimit = 0

\* this step is an add that the contract rejects: checksum 0, no payload, or
\* a checksum that is present
AddToReject ==
    /\ lastOp'.op = "add"
    /\ \/ lastOp'.checksum = 0
       \/ lastOp'.info.data.ptr = NullPtr
       \/ isCached(lastOp'.checksum)

\* C14: on the file backend as on the memory backend, an add with checksum
\* 0, with no payload or with a checksum that is present returns false and
\* changes nothing of the cache.
C14_UniformAdd ==
    [][AddToReject => (~ret' /\ UNCHANGED <<memVars, _storage>>)]_vars
\* the memory backend's half of C14
C14_MemoryAdd ==
    [][(Mem /\ AddToReject) => (~ret' /\ UNCHANGED <<memVars, _storage>>)]_vars

\* C15: file backend: add, save, del and clear change neither the index nor
\* size() nor totalSize(), and after any of them isCached and get answer for
\* every checksum as they did before: nothing written is read back.
C15_FileWritesInert ==
    [][(~Mem /\ lastOp'.op \in {"add", "save", "del", "clear"}) =>
          /\ _storage' = _storage
          /\ size' = size
          /\ totalSize' = totalSize
          /\ \A c \in Checksums :
                /\ isCached(c)' = isCached(c)
                /\ FileGet(c)' = FileGet(c)]_vars
\* an add of a valid record has reported success, and its checksum is not
\* cached
C15_Witness ==
    /\ ~Mem
    /\ lastOp.op = "add"
    /\ ret
    /\ lastOp.checksum # 0
    /\ lastOp.info.data.ptr # NullPtr
    /\ ~isCached(lastOp.checksum)
    /\ ~FileGet(lastOp.checksum)
    /\ size = 0

\* C16: memory backend, in every state that add, get, del, clear and load
\* reach: under a budget the LRU list holds each cached checksum once and no
\* other checksum, and the position an entry records is a node of the list
\* that holds the entry's own checksum; with no budget the list is empty.
C16_ListMatchesMap ==
    Mem =>
        IF _cacheLimit # 0
        THEN /\ Range(ListVals(_cachelist)) = DOMAIN _cache
             /\ Len(_cachelist) = Cardinality(DOMAIN _cache)
             /\ \A c \in DOMAIN _cache :
                   /\ _cache[c].it \in Range(_cachelist)
                   /\ _cache[c].it.val = c
        ELSE _cachelist = <<>>
\* a load under a budget has evicted an entry and stored a record
C16_Witness ==
    /\ Mem
    /\ _cacheLimit # 0
    /\ lastOp.op = "load"
    /\ lastOp.removed # {}
    /\ _cachelist # <<>>

\* the sum of the sizes stored with the entries of a map
RECURSIVE SumOfSizes(_)
SumOfSizes(cache) ==
    IF DOMAIN cache = {} THEN 0
    ELSE LET c == CHOOSE k \in DOMAIN cache : TRUE
         IN cache[c].size + SumOfSizes(MapErase(cache, c))

\* C17: memory backend, with or without a budget: after every call (an add
\* that succeeds or fails, that evicts or not, a get, a del, a clear, a load)
\* totalSize() is the sum of the sizes stored with the entries of the lookup
\* map and size() is the number of those entries.
C17_TotalIsSum ==
    Mem =>
        /\ totalSize = SumOfSizes(_cache)
        /\ size = Cardinality(DOMAIN _cache)
\* an add has evicted an entry and then failed, and entries remain
C17_Witness ==
    /\ Mem
    /\ lastOp.op = "add"
    /\ ~ret
    /\ lastOp.removed # {}
    /\ totalSize > 0

\* the sizes stored with the k entries used least recently
PrefixSize(k) ==
    SumOfSizes([c \in {_cachelist[i].val : i \in 1..k} |-> _cache[c]])
\* with the k entries used least recently gone, s more bytes are in budget
Fits(k, s) == _totalSize - PrefixSize(k) + s <= _cacheLimit
\* the length of the shortest prefix of the LRU order whose removal makes
\* room for s bytes; the whole order when none does
ShortestPrefix(s) ==
    IF \E k \in 0..Len(_cachelist) : Fits(k, s)
    THEN CHOOSE k \in 0..Len(_cachelist) :
             Fits(k, s) /\ \A j \in 0..(k - 1) : ~Fits(j, s)
    ELSE Len(_cachelist)

\* the example of C18: budget 1000, add 1 (600 bytes), add 2 (600 bytes)
C18_Example ==
    LET tex == TexInfo(CallerData([i \in 1..600 |-> 0]), 20, 30,
                       Fmt("COLOR_INDEX8", FALSE), "RGBA", "UNSIGNED_BYTE",
                       FALSE)
        a1 == MemAdd([cache |-> EmptyMap, list |-> <<>>, total |-> 0],
                     1000, 1, tex, 0, TRUE)
        a2 == MemAdd([cache |-> a1.cache, list |-> a1.list, total |-> a1.total],
                     1000, 2, tex, 0, TRUE)
    IN /\ a1.ret /\ a1.total = 600
       /\ a2.ret /\ a2.total = 600
       /\ DOMAIN a2.cache = {2}
       /\ ListVals(a2.list) = <<2>>

\* C18: memory backend under a budget B: an add that gets as far as making
\* room for its s bytes (it is not rejected) removes from the map and from
\* the list exactly the shortest prefix of the LRU order whose removal brings
\* total + s within B (nothing when total + s <= B already, the whole order
\* when no prefix is enough); what is left of the order follows, in its
\* order, by the new checksum when the add succeeds. And the example holds.
C18_EvictsShortestPrefix ==
    [][/\ C18_Example
       /\ (Mem /\ _cacheLimit # 0 /\ lastOp'.op = "add" /\ lastOp'.res # "none") =>
             LET k == ShortestPrefix(StoredSize(lastOp'))
                 vals == ListVals(_cachelist)
             IN /\ lastOp'.removed = {vals[i] : i \in 1..k}
                /\ DOMAIN _cache' \ {lastOp'.checksum} =
                       DOMAIN _cache \ lastOp'.removed
                /\ ListVals(_cachelist') =
                       SubSeq(vals, k + 1, Len(vals)) \o
                           (IF ret' THEN <<lastOp'.checksum>> ELSE <<>>)]_vars
\* an add has evicted the entry used least recently and left the next one
C18_Witness ==
    /\ Mem
    /\ _cacheLimit # 0
    /\ lastOp.op = "add"
    /\ ret
    /\ Cardinality(lastOp.removed) = 1
    /\ Len(_cachelist) = 2

\* the entries of two maps agree: the same checksums, each with the same
\* record and stored size
SameEntries(a, b) ==
    /\ DOMAIN a = DOMAIN b
    /\ \A c \in DOMAIN a : a[c].info = b[c].info /\ a[c].size = b[c].size

C19_FailedGetReached ==
    /\ Mem
    /\ _cacheLimit # 0
    /\ lastOp.op = "get"
    /\ ~ret
    /\ lastOp.res = "Z_BUF_ERROR"
    /\ _cachelist[Len(_cachelist)].val = lastOp.checksum

\* the call was a get that inflated a compressed entry into a scratch buffer
InflatedGet(call, r) == call.op = "get" /\ r /\ call.res = "Z_OK"

\* C20: memory backend: of two successive gets that each inflate a
\* compressed entry, the second does not use the scratch buffer of the
\* first: the two payloads returned are at different addresses.
C20_BuffersAlternate ==
    [][(Mem /\ InflatedGet(lastOp, ret) /\ InflatedGet(lastOp', ret')) =>
          out'.data.ptr # out.data.ptr]_vars

\* C21: memory backend: an add that returns false, whatever the reason, a
\* refused allocation of the payload copy included, leaves the cached
\* checksums, the LRU order and the total as they were: it evicts nothing.
C21_FailedAddKeepsState ==
    [][(Mem /\ lastOp'.op = "add" /\ ~ret') =>
          /\ DOMAIN _cache' = DOMAIN _cache
          /\ ListVals(_cachelist') = ListVals(_cachelist)
          /\ totalSize' = totalSize]_vars
\* the part of C21 about the adds that are rejected before the eviction pass
C21_RejectedAddKeepsState ==
    [][(Mem /\ lastOp'.op = "add" /\ ~ret' /\ lastOp'.res = "none") =>
          UNCHANGED memVars]_vars

\* C22: file backend, in every state that load, add, save, get, del and
\* clear reach: the index is empty, empty() is true, size() and totalSize()
\* are 0, get and isCached answer false for every checksum (one that add
\* returned true for included), and a load or a get has returned false.
C22_IndexEmpty ==
    ~Mem =>
        /\ DOMAIN _storage = {}
        /\ empty
        /\ size = 0
        /\ totalSize = 0
        /\ \A c \in Checksums : ~isCached(c) /\ ~FileGet(c)
        /\ lastOp.op \in {"load", "get"} => ~ret
\* a forced load of the file backend has returned false, the index is empty
C22_Witness ==
    /\ ~Mem
    /\ lastOp.op = "load"
    /\ lastOp.force
    /\ ~ret
    /\ empty

====
